---- MODULE Spec2Model ----
(***************************************************************************)
(* Model of llamafile/chatbot.cpp: the interactive chat front-end.        *)
(* The main control flow of chatbot_main is a program counter `pc`; the    *)
(* file-scope globals (n_past, g_model, g_ctx, g_got_sigint) are state     *)
(* variables; the inference engine is represented by the number of KV      *)
(* cells it has accepted and by the answers of its calls.                  *)
(***************************************************************************)
EXTENDS Integers, Sequences, FiniteSets, TLC

VARIABLES
    pc,            \* position of chatbot_main
    n_ctx,         \* params.n_ctx: configured window, llama_n_ctx(g_ctx)
    p_n_batch,     \* params.n_batch
    n_past,        \* static int n_past
    g_got_sigint,  \* static volatile sig_atomic_t g_got_sigint
    handler,       \* TRUE once signal(SIGINT, on_sigint) was called
    res,           \* engine resources: acquisitions and releases of each
    exit_status,   \* process exit status (-1 while running)
    exit_reason,   \* why the process ended
    kv_used,       \* engine: tokens accepted into the context so far
    tokens,        \* eval_tokens: the argument vector
    n_batch,       \* eval_tokens: the n_batch argument
    i,             \* eval_tokens: loop index
    ret,           \* eval_tokens: where the caller continues
    calls,         \* llama_decode calls of the running eval_tokens
    line,          \* the line returned by bestlineWithHistory
    out,           \* stdout written since the prompt was last shown
    flushed,       \* how many items of out were flushed
    report,        \* what handle_command printed for the current line
    trace,         \* operations of the generation loop since its last poll
    gen,           \* state of the generation loop
    id,            \* llama_token id of the running loop iteration
    err,           \* stderr: diagnostics written
    prev,          \* sampling context: the token accepted last
    turn_past,     \* n_past when the running generation was entered
    late           \* tokens sampled in this turn with the flag already set

vars == <<pc, n_ctx, p_n_batch, n_past, g_got_sigint, handler, res,
          exit_status, exit_reason, kv_used, tokens, n_batch, i, ret, calls,
          line, out, flushed, report, trace, gen, id, err, prev, turn_past,
          late>>

----------------------------------------------------------------------------
(* Bounds *)

MaxCtx == 10        \* largest configured window size
MaxBatch == 2       \* largest params.n_batch
MaxTokens == 5      \* most tokens a rendered turn tokenizes to
MaxLineLen == 2     \* longest enumerated input line
TrainCtx == 8       \* llama_n_ctx_train(g_model)

----------------------------------------------------------------------------
(* Characters and lines *)

Letters == {"a", "c", "e", "f", "n", "o", "s", "t", "x"}
Spaces == {" ", "\t"}

isspace(c) == c \in Spaces
isalpha(c) == c \in Letters

\* a slip: only the empty string counts as blank
is_empty_null(s) == s = <<>>

RECURSIVE is_empty(_)
is_empty(s) ==
    IF s = <<>> THEN TRUE
    ELSE IF ~isspace(Head(s)) THEN FALSE
    ELSE is_empty(Tail(s))

RECURSIVE SkipSpace(_)
SkipSpace(s) ==
    IF s # <<>> /\ isspace(Head(s)) THEN SkipSpace(Tail(s)) ELSE s

RECURSIVE Word(_)
Word(s) ==
    IF s = <<>> \/ isspace(Head(s)) THEN <<>>
    ELSE <<Head(s)>> \o Word(Tail(s))

\* while (iss >> arg) args.push_back(arg)
RECURSIVE SplitArgs(_)
SplitArgs(s) ==
    LET r == SkipSpace(s) IN
    IF r = <<>> THEN <<>>
    ELSE LET w == Word(r)
         IN <<w>> \o SplitArgs(SubSeq(r, Len(w) + 1, Len(r)))

\* a slip: the test of the second character is left out
IsCommand_slash(command) == Len(command) >= 1 /\ command[1] = "/"

\* a slip: any second character is taken, also whitespace
IsCommand_nonnul(command) == Len(command) >= 2 /\ command[1] = "/"

\* command[0] == '/' && std::isalpha(command[1]); past the end is the NUL
IsCommand(command) ==
    /\ Len(command) >= 1 /\ command[1] = "/"
    /\ Len(command) >= 2 /\ isalpha(command[2])

STATS == <<"s", "t", "a", "t", "s">>
CONTEXT == <<"c", "o", "n", "t", "e", "x", "t">>
FOO == <<"f", "o", "o">>

LineAlphabet == {"/", "s", "1", " "}

RECURSIVE SeqsUpTo(_, _)
SeqsUpTo(S, n) ==
    IF n = 0 THEN {<<>>}
    ELSE LET shorter == SeqsUpTo(S, n - 1)
         IN shorter \cup {Append(s, c) : s \in shorter, c \in S}

NamedLines ==
    { <<"/">> \o CONTEXT, <<"/">> \o CONTEXT \o FOO, CONTEXT,
      <<"/">> \o STATS, <<"/">> \o CONTEXT \o <<" ">> \o FOO,
      <<" ", "\t", " ">>, <<" ", "/">> \o STATS }

Lines == SeqsUpTo(LineAlphabet, MaxLineLen) \cup NamedLines

NoLine == <<"<null>">>

----------------------------------------------------------------------------
(* Engine *)

EOG == "EOG"
TOK == "TOK"
Vocab == {EOG, TOK}

llama_token_is_eog(t) == t = EOG
llama_token_to_piece(t) == IF t = TOK THEN "word" ELSE ""

Resources == {"backend", "model", "ctx", "sampling"}

\* llama_decode of n_eval tokens succeeds iff they fit in the window
llama_decode(n) == kv_used + n <= n_ctx

Acquire(r) == [res EXCEPT ![r].acq = @ + 1]

RECURSIVE ReleaseAll(_, _)
ReleaseAll(rs, f) ==
    IF rs = <<>> THEN f
    ELSE ReleaseAll(Tail(rs), [f EXCEPT ![Head(rs)].rel = @ + 1])

----------------------------------------------------------------------------
(* Initial state: the process has been started with some command line *)

\* handle_command has printed nothing
NoReport == [kind |-> "none", name |-> <<>>, used |-> 0, total |-> 0,
             remaining |-> 0, hint |-> FALSE]

Init ==
    /\ pc = "parse"
    /\ n_ctx \in 1..MaxCtx
    /\ p_n_batch \in 1..MaxBatch
    /\ n_past = 0
    /\ g_got_sigint = 0
    /\ handler = FALSE
    /\ res = [r \in Resources |-> [acq |-> 0, rel |-> 0]]
    /\ exit_status = -1
    /\ exit_reason = "running"
    /\ kv_used = 0
    /\ tokens = <<>>
    /\ n_batch = 0
    /\ i = 0
    /\ ret = "none"
    /\ calls = <<>>
    /\ line = NoLine
    /\ out = <<>>
    /\ flushed = 0
    /\ report = NoReport
    /\ trace = <<>>
    /\ gen = "IDLE"
    /\ id = "none"
    /\ err = <<>>
    /\ prev = "none"
    /\ turn_past = 0
    /\ late = 0

Running == pc # "exited"

\* the process ends with the given status
Exit(status, reason) ==
    /\ pc' = "exited"
    /\ exit_status' = status
    /\ exit_reason' = reason

\* entry of eval_tokens(toks, nb), continuing at r when it returns
CallEval(toks, nb, r) ==
    /\ tokens' = toks
    /\ n_batch' = nb
    /\ i' = 0
    /\ ret' = r
    /\ calls' = <<>>
    /\ pc' = "eval"

Rendered(n) == [k \in 1..n |-> TOK]

----------------------------------------------------------------------------
(* Startup, chatbot_main lines 173-227 *)

ParseFail ==
    /\ pc = "parse"
    /\ Exit(1, "bad_args")
    /\ UNCHANGED <<n_ctx, p_n_batch, n_past, g_got_sigint, handler, res,
                   kv_used, tokens, n_batch, i, ret, calls, line, out,
                   flushed, report, trace, gen, id, err, prev, turn_past, late>>

ParseOk ==
    /\ pc = "parse"
    /\ pc' = "backend_init"
    /\ UNCHANGED <<n_ctx, p_n_batch, n_past, g_got_sigint, handler, res,
                   exit_status, exit_reason, kv_used, tokens, n_batch, i, ret,
                   calls, line, out, flushed, report, trace, gen, id, err,
                   prev, turn_past, late>>

BackendInit ==
    /\ pc = "backend_init"
    /\ err' = err \o <<"initializing backend...", "clear">>
    /\ res' = Acquire("backend")
    /\ pc' = "load_model"
    /\ UNCHANGED <<n_ctx, p_n_batch, n_past, g_got_sigint, handler,
                   exit_status, exit_reason, kv_used, tokens, n_batch, i, ret,
                   calls, line, out, flushed, report, trace, gen, id, prev,
                   turn_past, late>>

LoadModelOk ==
    /\ pc = "load_model"
    /\ err' = err \o <<"initializing model...", "clear">>
    /\ res' = Acquire("model")
    /\ pc' = "new_context"
    /\ UNCHANGED <<n_ctx, p_n_batch, n_past, g_got_sigint, handler,
                   exit_status, exit_reason, kv_used, tokens, n_batch, i, ret,
                   calls, line, out, flushed, report, trace, gen, id, prev,
                   turn_past, late>>

LoadModelFail ==
    /\ pc = "load_model"
    /\ err' = Append(err, "initializing model...")
    /\ Exit(2, "model_load")
    /\ UNCHANGED <<n_ctx, p_n_batch, n_past, g_got_sigint, handler, res,
                   kv_used, tokens, n_batch, i, ret, calls, line, out,
                   flushed, report, trace, gen, id, prev, turn_past, late>>

NewContextOk ==
    /\ pc = "new_context"
    /\ err' = err \o <<"initializing context...", "clear">>
    /\ res' = Acquire("ctx")
    /\ pc' = "system_prompt"
    /\ UNCHANGED <<n_ctx, p_n_batch, n_past, g_got_sigint, handler,
                   exit_status, exit_reason, kv_used, tokens, n_batch, i, ret,
                   calls, line, out, flushed, report, trace, gen, id, prev,
                   turn_past, late>>

NewContextFail ==
    /\ pc = "new_context"
    /\ err' = Append(err, "initializing context...")
    /\ Exit(3, "context_create")
    /\ UNCHANGED <<n_ctx, p_n_batch, n_past, g_got_sigint, handler, res,
                   kv_used, tokens, n_batch, i, ret, calls, line, out,
                   flushed, report, trace, gen, id, prev, turn_past, late>>

\* lines 217-221: render the system turn and evaluate it
SystemPrompt(n) ==
    /\ pc = "system_prompt"
    /\ err' = Append(err, "loading prompt...")
    /\ CallEval(Rendered(n), p_n_batch, "prompt_loaded")
    /\ UNCHANGED <<n_ctx, p_n_batch, n_past, g_got_sigint, handler, res,
                   exit_status, exit_reason, kv_used, line, out, flushed,
                   report, trace, gen, id, prev, turn_past, late>>

\* lines 222-226
SamplingInit ==
    /\ pc = "prompt_loaded"
    /\ err' = Append(err, "clear")
    /\ out' = <<"prompt", "\n">>
    /\ res' = Acquire("sampling")
    /\ pc' = "signal"
    /\ UNCHANGED <<n_ctx, p_n_batch, n_past, g_got_sigint, handler,
                   exit_status, exit_reason, kv_used, tokens, n_batch, i, ret,
                   calls, line, flushed, report, trace, gen, id, prev,
                   turn_past, late>>

\* line 227
InstallHandler ==
    /\ pc = "signal"
    /\ handler' = TRUE
    /\ pc' = "read"
    /\ UNCHANGED <<n_ctx, p_n_batch, n_past, g_got_sigint, res, exit_status,
                   exit_reason, kv_used, tokens, n_batch, i, ret, calls, line,
                   out, flushed, report, trace, gen, id, err, prev, turn_past,
                   late>>

----------------------------------------------------------------------------
(* eval_tokens, lines 141-151, one loop iteration per step *)

\* a slip: the chunk is not clamped to the batch size
n_eval_rest == Len(tokens) - i

\* lines 144-146
n_eval == IF Len(tokens) - i > n_batch THEN n_batch ELSE Len(tokens) - i

\* a slip: advancing by the batch size instead of the chunk length
NextPast_batch == n_past + n_batch

\* line 149: n_past += n_eval
NextPast == n_past + n_eval

EvalChunk ==
    /\ pc = "eval"
    /\ i < Len(tokens)
    /\ llama_decode(n_eval)
    /\ calls' = Append(calls, [off |-> i, n |-> n_eval, pos |-> n_past,
                               ok |-> TRUE])
    /\ kv_used' = kv_used + n_eval
    /\ n_past' = NextPast
    /\ i' = i + n_batch
    /\ UNCHANGED <<pc, n_ctx, p_n_batch, g_got_sigint, handler, res,
                   exit_status, exit_reason, tokens, n_batch, ret, line, out,
                   flushed, report, trace, gen, id, err, prev, turn_past, late>>

\* a slip: the chunk is counted before the result of llama_decode is seen
EvalOverflow_counted ==
    /\ pc = "eval"
    /\ i < Len(tokens)
    /\ ~llama_decode(n_eval)
    /\ calls' = Append(calls, [off |-> i, n |-> n_eval, pos |-> n_past,
                               ok |-> FALSE])
    /\ n_past' = NextPast
    /\ err' = Append(err, "error: ran out of context window")
    /\ Exit(1, "overflow")
    /\ UNCHANGED <<n_ctx, p_n_batch, g_got_sigint, handler, res, kv_used,
                   tokens, n_batch, i, ret, line, out, flushed, report, trace,
                   gen, id, prev, turn_past, late>>

\* llama_decode failed: die_out_of_context, lines 132-139
EvalOverflow ==
    /\ pc = "eval"
    /\ i < Len(tokens)
    /\ ~llama_decode(n_eval)
    /\ calls' = Append(calls, [off |-> i, n |-> n_eval, pos |-> n_past,
                               ok |-> FALSE])
    /\ err' = Append(err, "error: ran out of context window")
    /\ Exit(1, "overflow")
    /\ UNCHANGED <<n_ctx, p_n_batch, n_past, g_got_sigint, handler, res,
                   kv_used, tokens, n_batch, i, ret, line, out, flushed,
                   report, trace, gen, id, prev, turn_past, late>>

EvalReturn ==
    /\ pc = "eval"
    /\ i >= Len(tokens)
    /\ pc' = ret
    /\ gen' = IF ret = "poll" THEN "SAMPLING" ELSE gen
    /\ turn_past' = IF ret = "poll" /\ gen = "IDLE" THEN n_past ELSE turn_past
    /\ UNCHANGED <<n_ctx, p_n_batch, n_past, g_got_sigint, handler, res,
                   exit_status, exit_reason, kv_used, tokens, n_batch, i, ret,
                   calls, line, out, flushed, report, trace, id, err, prev,
                   late>>

----------------------------------------------------------------------------
(* The chatbot loop, lines 230-261 *)

\* lines 231-237 with a line of input
ReadLine(l) ==
    /\ pc = "read"
    /\ line' = l
    /\ out' = <<>>
    /\ flushed' = 0
    /\ report' = NoReport
    /\ pc' = "is_empty"
    /\ UNCHANGED <<n_ctx, p_n_batch, n_past, g_got_sigint, handler, res,
                   exit_status, exit_reason, kv_used, tokens, n_batch, i, ret,
                   calls, trace, gen, id, err, prev, turn_past, late>>

\* lines 231-237 at end of input: if (!line) break
ReadEof ==
    /\ pc = "read"
    /\ line' = NoLine
    /\ out' = <<>>
    /\ flushed' = 0
    /\ report' = NoReport
    /\ pc' = "shutdown"
    /\ UNCHANGED <<n_ctx, p_n_batch, n_past, g_got_sigint, handler, res,
                   exit_status, exit_reason, kv_used, tokens, n_batch, i, ret,
                   calls, trace, gen, id, err, prev, turn_past, late>>

\* lines 238-241
SkipBlank ==
    /\ pc = "is_empty"
    /\ is_empty(line)
    /\ line' = NoLine
    /\ pc' = "read"
    /\ UNCHANGED <<n_ctx, p_n_batch, n_past, g_got_sigint, handler, res,
                   exit_status, exit_reason, kv_used, tokens, n_batch, i, ret,
                   calls, out, flushed, report, trace, gen, id, err, prev,
                   turn_past, late>>

NotBlank ==
    /\ pc = "is_empty"
    /\ ~is_empty(line)
    /\ pc' = "handle_command"
    /\ UNCHANGED <<n_ctx, p_n_batch, n_past, g_got_sigint, handler, res,
                   exit_status, exit_reason, kv_used, tokens, n_batch, i, ret,
                   calls, line, out, flushed, report, trace, gen, id, err,
                   prev, turn_past, late>>

\* handle_command, lines 89-107: what the command prints
CommandReport(command) ==
    LET args == SplitArgs(Tail(command))
        arg0 == IF args = <<>> THEN <<"<out of bounds>">> ELSE args[1]
    IN IF arg0 = STATS
       THEN [NoReport EXCEPT !.kind = "timings"]
       ELSE IF arg0 = CONTEXT
       THEN [kind |-> "context", name |-> <<>>, used |-> n_past,
             total |-> n_ctx, remaining |-> n_ctx - n_past,
             hint |-> n_ctx < TrainCtx]
       ELSE [NoReport EXCEPT !.kind = "unrecognized", !.name = arg0]

\* a slip: an unrecognized command is handed on as chat text
HandleCommand_chat ==
    /\ pc = "handle_command"
    /\ IsCommand(line)
    /\ report' = CommandReport(line)
    /\ IF report'.kind = "unrecognized"
       THEN line' = line /\ pc' = "render"
       ELSE line' = NoLine /\ pc' = "read"
    /\ UNCHANGED <<n_ctx, p_n_batch, n_past, g_got_sigint, handler, res,
                   exit_status, exit_reason, kv_used, tokens, n_batch, i, ret,
                   calls, out, flushed, trace, gen, id, err, prev, turn_past,
                   late>>

\* lines 242-245 when handle_command returns true
HandleCommand ==
    /\ pc = "handle_command"
    /\ IsCommand(line)
    /\ report' = CommandReport(line)
    /\ line' = NoLine
    /\ pc' = "read"
    /\ UNCHANGED <<n_ctx, p_n_batch, n_past, g_got_sigint, handler, res,
                   exit_status, exit_reason, kv_used, tokens, n_batch, i, ret,
                   calls, out, flushed, trace, gen, id, err, prev, turn_past,
                   late>>

\* line 242 when handle_command returns false
NotCommand ==
    /\ pc = "handle_command"
    /\ ~IsCommand(line)
    /\ pc' = "render"
    /\ UNCHANGED <<n_ctx, p_n_batch, n_past, g_got_sigint, handler, res,
                   exit_status, exit_reason, kv_used, tokens, n_batch, i, ret,
                   calls, line, out, flushed, report, trace, gen, id, err,
                   prev, turn_past, late>>

\* lines 246-248: render the user turn and evaluate it
Render(n) ==
    /\ pc = "render"
    /\ CallEval(Rendered(n), p_n_batch, "poll")
    /\ UNCHANGED <<n_ctx, p_n_batch, n_past, g_got_sigint, handler, res,
                   exit_status, exit_reason, kv_used, line, out, flushed,
                   report, trace, gen, id, err, prev, turn_past, late>>

\* a slip: the loop does not look at the flag
Poll_blind ==
    /\ pc = "poll"
    /\ trace' = <<>>
    /\ gen' = "SAMPLING"
    /\ pc' = "sample"
    /\ UNCHANGED <<n_ctx, p_n_batch, n_past, g_got_sigint, handler, res,
                   exit_status, exit_reason, kv_used, tokens, n_batch, i, ret,
                   calls, line, out, flushed, report, id, err, prev,
                   turn_past, late>>

\* line 249: while (!g_got_sigint)
Poll ==
    /\ pc = "poll"
    /\ trace' = <<>>
    /\ IF g_got_sigint # 0
       THEN gen' = "CANCELLED" /\ pc' = "end_turn"
       ELSE gen' = "SAMPLING" /\ pc' = "sample"
    /\ UNCHANGED <<n_ctx, p_n_batch, n_past, g_got_sigint, handler, res,
                   exit_status, exit_reason, kv_used, tokens, n_batch, i, ret,
                   calls, line, out, flushed, report, id, err, prev,
                   turn_past, late>>

\* a slip: continue instead of break on the end-of-generation token
Sample_continue(t) ==
    /\ pc = "sample"
    /\ id' = t
    /\ trace' = trace \o <<"sample", "accept">>
    /\ IF llama_token_is_eog(t)
       THEN gen' = "SAMPLING" /\ pc' = "poll"
       ELSE gen' = "EMITTING" /\ pc' = "print"
    /\ prev' = t
    /\ late' = IF g_got_sigint # 0 THEN late + 1 ELSE late
    /\ UNCHANGED <<n_ctx, p_n_batch, n_past, g_got_sigint, handler, res,
                   exit_status, exit_reason, kv_used, tokens, n_batch, i, ret,
                   calls, line, out, flushed, report, err, turn_past>>

\* a slip: the end-of-generation test is missing
Sample_no_break(t) ==
    /\ pc = "sample"
    /\ id' = t
    /\ trace' = trace \o <<"sample", "accept">>
    /\ gen' = "EMITTING"
    /\ pc' = "print"
    /\ prev' = t
    /\ late' = IF g_got_sigint # 0 THEN late + 1 ELSE late
    /\ UNCHANGED <<n_ctx, p_n_batch, n_past, g_got_sigint, handler, res,
                   exit_status, exit_reason, kv_used, tokens, n_batch, i, ret,
                   calls, line, out, flushed, report, err, turn_past>>

\* lines 250-253: sample, accept, and break on end of generation
Sample(t) ==
    /\ pc = "sample"
    /\ id' = t
    /\ trace' = trace \o <<"sample", "accept">>
    /\ IF llama_token_is_eog(t)
       THEN gen' = "DONE" /\ pc' = "end_turn"
       ELSE gen' = "EMITTING" /\ pc' = "print"
    /\ prev' = t
    /\ late' = IF g_got_sigint # 0 THEN late + 1 ELSE late
    /\ UNCHANGED <<n_ctx, p_n_batch, n_past, g_got_sigint, handler, res,
                   exit_status, exit_reason, kv_used, tokens, n_batch, i, ret,
                   calls, line, out, flushed, report, err, turn_past>>

\* line 254
PrintPiece ==
    /\ pc = "print"
    /\ out' = Append(out, llama_token_to_piece(id))
    /\ trace' = Append(trace, "write")
    /\ pc' = "flush"
    /\ UNCHANGED <<n_ctx, p_n_batch, n_past, g_got_sigint, handler, res,
                   exit_status, exit_reason, kv_used, tokens, n_batch, i, ret,
                   calls, line, flushed, report, gen, id, err, prev,
                   turn_past, late>>

\* a slip: the flush is left to the end of the turn
Flush_deferred ==
    /\ pc = "flush"
    /\ trace' = Append(trace, "flush")
    /\ pc' = "eval_id"
    /\ UNCHANGED <<n_ctx, p_n_batch, n_past, g_got_sigint, handler, res,
                   exit_status, exit_reason, kv_used, tokens, n_batch, i, ret,
                   calls, line, out, flushed, report, gen, id, err, prev,
                   turn_past, late>>

\* line 255
Flush ==
    /\ pc = "flush"
    /\ flushed' = Len(out)
    /\ trace' = Append(trace, "flush")
    /\ pc' = "eval_id"
    /\ UNCHANGED <<n_ctx, p_n_batch, n_past, g_got_sigint, handler, res,
                   exit_status, exit_reason, kv_used, tokens, n_batch, i, ret,
                   calls, line, out, report, gen, id, err, prev, turn_past,
                   late>>

\* a slip: a second look at the flag, skipping the evaluation
EvalId_checked ==
    /\ pc = "eval_id"
    /\ trace' = Append(trace, "evaluate")
    /\ IF g_got_sigint # 0
       THEN /\ pc' = "poll"
            /\ UNCHANGED <<tokens, n_batch, i, ret, calls>>
       ELSE CallEval(<<id>>, 1, "poll")
    /\ UNCHANGED <<n_ctx, p_n_batch, n_past, g_got_sigint, handler, res,
                   exit_status, exit_reason, kv_used, line, out, flushed,
                   report, gen, id, err, prev, turn_past, late>>

\* a slip: the token is pushed twice on the vector
EvalId_twice ==
    /\ pc = "eval_id"
    /\ trace' = Append(trace, "evaluate")
    /\ CallEval(<<id, id>>, 1, "poll")
    /\ UNCHANGED <<n_ctx, p_n_batch, n_past, g_got_sigint, handler, res,
                   exit_status, exit_reason, kv_used, line, out, flushed,
                   report, gen, id, err, prev, turn_past, late>>

\* line 256 and eval_id, lines 153-157
EvalId ==
    /\ pc = "eval_id"
    /\ trace' = Append(trace, "evaluate")
    /\ CallEval(<<id>>, 1, "poll")
    /\ UNCHANGED <<n_ctx, p_n_batch, n_past, g_got_sigint, handler, res,
                   exit_status, exit_reason, kv_used, line, out, flushed,
                   report, gen, id, err, prev, turn_past, late>>

\* a slip: the flag is cleared only where the loop saw it set
EndTurn_seen ==
    /\ pc = "end_turn"
    /\ g_got_sigint' = IF gen = "CANCELLED" THEN 0 ELSE g_got_sigint
    /\ out' = Append(out, "\n")
    /\ line' = NoLine
    /\ trace' = <<>>
    /\ id' = "none"
    /\ gen' = "IDLE"
    /\ pc' = "read"
    /\ turn_past' = 0
    /\ late' = 0
    /\ UNCHANGED <<n_ctx, p_n_batch, n_past, handler, res, exit_status,
                   exit_reason, kv_used, tokens, n_batch, i, ret, calls,
                   flushed, report, err, prev>>

\* lines 258-260
EndTurn ==
    /\ pc = "end_turn"
    /\ g_got_sigint' = 0
    /\ out' = Append(out, "\n")
    /\ line' = NoLine
    /\ trace' = <<>>
    /\ id' = "none"
    /\ gen' = "IDLE"
    /\ pc' = "read"
    /\ turn_past' = 0
    /\ late' = 0
    /\ UNCHANGED <<n_ctx, p_n_batch, n_past, handler, res, exit_status,
                   exit_reason, kv_used, tokens, n_batch, i, ret, calls,
                   flushed, report, err, prev>>

\* lines 263-267
Shutdown ==
    /\ pc = "shutdown"
    /\ res' = ReleaseAll(<<"sampling", "ctx", "model", "backend">>, res)
    /\ Exit(0, "eof")
    /\ UNCHANGED <<n_ctx, p_n_batch, n_past, g_got_sigint, handler, kv_used,
                   tokens, n_batch, i, ret, calls, line, out, flushed, report,
                   trace, gen, id, err, prev, turn_past, late>>

----------------------------------------------------------------------------
(* SIGINT *)

\* a slip: the handler also writes a newline to stdout
OnSigint_print ==
    /\ Running
    /\ handler
    /\ g_got_sigint' = 1
    /\ out' = Append(out, "\n")
    /\ UNCHANGED <<pc, n_ctx, p_n_batch, n_past, handler, res, exit_status,
                   exit_reason, kv_used, tokens, n_batch, i, ret, calls, line,
                   flushed, report, trace, gen, id, err, prev, turn_past,
                   late>>

\* on_sigint, lines 49-51, once installed by line 227
OnSigint ==
    /\ Running
    /\ handler
    /\ g_got_sigint' = 1
    /\ UNCHANGED <<pc, n_ctx, p_n_batch, n_past, handler, res, exit_status,
                   exit_reason, kv_used, tokens, n_batch, i, ret, calls, line,
                   out, flushed, report, trace, gen, id, err, prev, turn_past,
                   late>>

\* before line 227 SIGINT has its default disposition
SigintDefault ==
    /\ Running
    /\ ~handler
    /\ Exit(130, "sigint")
    /\ UNCHANGED <<n_ctx, p_n_batch, n_past, g_got_sigint, handler, res,
                   kv_used, tokens, n_batch, i, ret, calls, line, out,
                   flushed, report, trace, gen, id, err, prev, turn_past, late>>

----------------------------------------------------------------------------

Startup ==
    \/ ParseFail \/ ParseOk \/ BackendInit
    \/ LoadModelOk \/ LoadModelFail
    \/ NewContextOk \/ NewContextFail
    \/ \E n \in 0..MaxTokens : SystemPrompt(n)
    \/ SamplingInit \/ InstallHandler

EvalTokens == EvalChunk \/ EvalOverflow \/ EvalReturn

Generate ==
    \/ Poll
    \/ \E t \in Vocab : Sample(t)
    \/ PrintPiece \/ Flush \/ EvalId \/ EndTurn

\* every step of the program that does not wait for the user
Program ==
    \/ Startup \/ EvalTokens
    \/ SkipBlank \/ NotBlank \/ HandleCommand \/ NotCommand
    \/ \E n \in 0..MaxTokens : Render(n)
    \/ Generate
    \/ Shutdown

Input == ReadEof \/ \E l \in Lines : ReadLine(l)

Signal == OnSigint \/ SigintDefault

Next == Program \/ Input \/ Signal

Spec == Init /\ [][Next]_vars

----------------------------------------------------------------------------
(* Properties *)

RECURSIVE AcceptedLen(_)
\* total length of the chunks of a call log that the engine accepted
AcceptedLen(cs) ==
    IF cs = <<>> THEN 0
    ELSE (IF Head(cs).ok THEN Head(cs).n ELSE 0) + AcceptedLen(Tail(cs))

Overflowed == exit_reason = "overflow"

\* n_past when the running (or last) eval_tokens was entered
EntryPast == IF calls = <<>> THEN n_past ELSE calls[1].pos

\* C1: in every state n_past equals the number of tokens the engine has
\* accepted (the sum of the accepted chunk lengths) and does not exceed the
\* configured window size.
C1_Accounting ==
    /\ n_past = kv_used
    /\ n_past <= n_ctx
    /\ n_past = EntryPast + AcceptedLen(calls)

\* tokens of the system turn, of a user turn and generated ones were
\* accepted and the window is full
C1_Witness ==
    /\ pc = "poll"
    /\ Len(out) >= 1
    /\ n_past > Len(out)
    /\ n_past = n_ctx
    /\ Len(calls) = 1

ErrorCount == Cardinality({k \in 1..Len(err) :
                               err[k] = "error: ran out of context window"})

C2_AtOverflow ==
    Overflowed =>
        LET k == Len(calls) IN
        /\ k >= 1
        /\ ~calls[k].ok
        /\ \A j \in 1..(k - 1) : calls[j].ok
        /\ n_past = calls[1].pos + AcceptedLen(calls)
        /\ n_past = calls[k].pos
        /\ calls[k].off = i
        /\ calls[1].pos + Len(tokens) > n_ctx
        /\ ErrorCount = 1
        /\ pc = "exited"

C2_NoReturn ==
    (pc = "eval" /\ i >= Len(tokens)) => EntryPast + Len(tokens) <= n_ctx

\* C2: a token sequence longer than the remaining capacity never returns
\* from the evaluator; when the overflow is raised it is raised once, the
\* chunks before the failing one are counted in n_past, the failing chunk is
\* not, it is the last chunk sent to the engine, and the process takes no
\* further step.
C2_Overflow ==
    /\ [](C2_AtOverflow /\ C2_NoReturn)
    /\ [][pc = "exited" => vars' = vars]_vars

\* the overflow hits the second chunk of three
C2_Witness ==
    /\ Overflowed
    /\ Len(calls) = 2
    /\ calls[2].off + calls[2].n < Len(tokens)
    /\ n_past = calls[1].pos + calls[1].n
    /\ n_past > 0

\* the evaluation of a generated token (eval_id) that started at position p
GeneratedAt(p) ==
    /\ trace # <<>>
    /\ trace[Len(trace)] = "evaluate"
    /\ calls # <<>>
    /\ calls[1].pos = p

\* C3: with a window of 10, a system turn of 4 tokens leaves n_past = 4; a
\* user turn of 5 tokens evaluated from there succeeds and leaves 9; the
\* first generated token evaluated from 9 succeeds and leaves 10; the next
\* generated token overflows with n_past still 10.
C3_Scenario ==
    n_ctx = 10 =>
        /\ (ret = "prompt_loaded" /\ Len(tokens) = 4)
               => /\ ~Overflowed
                  /\ pc \notin {"eval", "exited"} => n_past = 4
        /\ (ret = "poll" /\ trace = <<>> /\ Len(tokens) = 5
               /\ calls # <<>> /\ calls[1].pos = 4)
               => /\ ~Overflowed
                  /\ pc = "poll" => n_past = 9
        /\ (GeneratedAt(9) /\ Len(out) = 1)
               => /\ ~Overflowed
                  /\ pc = "poll" => n_past = 10
        /\ (GeneratedAt(10) /\ Len(out) = 2)
               => /\ Overflowed
                  /\ n_past = 10

\* the end of the scenario: the second generated token of the turn has been
\* streamed and overflows the window of 10
C3_Witness ==
    /\ n_ctx = 10
    /\ GeneratedAt(10)
    /\ Len(out) = 2
    /\ Len(err) = 9
    /\ Overflowed
    /\ n_past = 10

----------------------------------------------------------------------------
(* Liveness: the program takes a step whenever it does not wait for input *)

LiveCtx == 3        \* largest window size of the liveness runs

LiveInit == Init /\ n_ctx <= LiveCtx

LiveSpec == LiveInit /\ [][Next]_vars /\ WF_vars(Program)

\* C4 as stated: a generation loop that was entered reaches DONE or CANCELLED
C4_DoneOrCancelled == (gen = "SAMPLING") ~> (gen \in {"DONE", "CANCELLED"})

\* C4: a generation loop that was entered reaches DONE or CANCELLED, or the
\* process ends with the context overflow of a generated token.
C4_Terminates ==
    (gen = "SAMPLING")
        ~> (gen \in {"DONE", "CANCELLED"} \/ (Overflowed /\ ret = "poll"))

\* a generation was interrupted after it streamed two tokens
C4_Witness ==
    /\ gen = "CANCELLED"
    /\ Len(out) = 2
    /\ g_got_sigint = 1

IsPiece(x) == x # "\n"

\* the token pieces among the items written to stdout
Streamed(o) == SelectSeq(o, IsPiece)

\* C5: a poll that sees the flag set goes to CANCELLED; from the poll to the
\* next read nothing is sampled, written or evaluated, and n_past, the
\* engine's context and the streamed tokens stay what they were.
C5_Cancel ==
    /\ [](gen = "CANCELLED" => pc = "end_turn")
    /\ [][(pc = "poll" /\ g_got_sigint # 0 /\ pc' # pc)
              => /\ pc' = "end_turn" /\ gen' = "CANCELLED"
                 /\ n_past' = n_past /\ kv_used' = kv_used
                 /\ out' = out /\ flushed' = flushed
                 /\ calls' = calls /\ id' = id]_vars
    /\ [][(gen = "CANCELLED" /\ pc' # pc)
              => /\ pc' = "read"
                 /\ n_past' = n_past /\ kv_used' = kv_used
                 /\ Streamed(out') = Streamed(out)
                 /\ calls' = calls]_vars

\* the poll after the first streamed token saw the flag
C5_Witness ==
    /\ gen = "CANCELLED"
    /\ Len(out) = 1
    /\ flushed = 1
    /\ n_past > 1

SlashAlpha(l) == Len(l) >= 2 /\ l[1] = "/" /\ l[2] \in Letters

Blank(l) == \A k \in 1..Len(l) : l[k] \in {" ", "\t"}

\* the turn renderer, the evaluation of a user turn, the generation loop
InChat ==
    \/ pc \in {"render", "poll", "sample", "print", "flush", "eval_id",
                "end_turn"}
    \/ pc = "eval" /\ ret = "poll"

ChatExamples ==
    {CONTEXT, <<"/">>, <<"/", "1">>, <<" ", "/">> \o STATS}

\* C6: a non-blank line is dispatched as a command iff it starts with a
\* slash followed by a letter; a command never reaches the renderer or the
\* generation loop; "/context" reports the context, "/contextfoo" is the
\* unrecognized command contextfoo; every other line is rendered and
\* evaluated as a user turn.
C6_Routing ==
    /\ [][(pc = "handle_command" /\ pc' # pc)
              => /\ SlashAlpha(line) <=> (pc' = "read" /\ report' # NoReport)
                 /\ (~SlashAlpha(line)) <=> (pc' = "render" /\ line' = line)
                 /\ line = <<"/">> \o CONTEXT
                        => /\ report'.kind = "context"
                           /\ report'.used = n_past
                 /\ line = <<"/">> \o CONTEXT \o FOO
                        => /\ report'.kind = "unrecognized"
                           /\ report'.name = CONTEXT \o FOO
                 /\ line \in ChatExamples => pc' = "render"]_vars
    /\ [][(pc = "render" /\ pc' # pc) => (pc' = "eval" /\ ret' = "poll")]_vars
    /\ [](InChat => (line # NoLine /\ ~SlashAlpha(line)))
    /\ [](report # NoReport => pc = "read")

\* "/contextfoo" was dispatched
C6_Witness ==
    /\ pc = "read"
    /\ report.kind = "unrecognized"
    /\ report.name = CONTEXT \o FOO

\* C7: a line of only whitespace is freed and the loop reads again; nothing
\* is dispatched, rendered, evaluated or sampled for it.
C7_Blank ==
    /\ [][(pc = "is_empty" /\ Blank(line) /\ pc' # pc)
              => /\ pc' = "read" /\ line' = NoLine
                 /\ report' = NoReport
                 /\ n_past' = n_past /\ kv_used' = kv_used
                 /\ tokens' = tokens /\ calls' = calls
                 /\ out' = out /\ trace' = trace /\ gen' = gen]_vars
    /\ []((pc = "handle_command" \/ InChat) => ~Blank(line))

\* only the skip of a blank line returns to the read with nothing printed
C7_Witness ==
    /\ pc = "read"
    /\ handler
    /\ out = <<>>
    /\ report = NoReport
    /\ n_past > 0

\* C8: a command line leaves n_past and the engine alone, does not end the
\* process, and is followed by the next read.
C8_Command ==
    /\ [][(pc = "handle_command" /\ SlashAlpha(line) /\ pc' # pc)
              => /\ pc' = "read"
                 /\ report'.kind \in {"timings", "context", "unrecognized"}
                 /\ n_past' = n_past /\ kv_used' = kv_used
                 /\ exit_status' = exit_status
                 /\ exit_reason' = exit_reason
                 /\ tokens' = tokens /\ calls' = calls
                 /\ out' = out /\ trace' = trace /\ gen' = gen]_vars
    /\ [](report.kind # "none" => (pc = "read" /\ exit_reason = "running"))

\* "/stats" was dispatched after the window filled up
C8_Witness ==
    /\ pc = "read"
    /\ report.kind = "timings"
    /\ n_past = n_ctx

\* C9: the exit status of a context overflow is none of 0, 1, 2, 3.
C9_DistinctStatus == Overflowed => exit_status \notin {0, 1, 2, 3}

\* C10: when the process has ended by end of input, model load failure,
\* context creation failure or context overflow, every resource was released
\* as often as it was acquired, and at most once.
C10_Released ==
    (pc = "exited"
         /\ exit_reason \in {"eof", "model_load", "context_create", "overflow"})
        => \A r \in Resources : res[r].rel = res[r].acq /\ res[r].acq <= 1

\* C11: a step that raises the interrupt flag changes nothing else: n_past,
\* the engine, the resources, both output streams and the position of the
\* main control flow stay as they were; once the handler is installed the
\* process never ends because of an interrupt.
C11_HandlerOnlySetsFlag ==
    /\ [][(g_got_sigint = 0 /\ g_got_sigint' # 0)
              => /\ g_got_sigint' = 1
                 /\ handler
                 /\ UNCHANGED <<pc, n_ctx, p_n_batch, n_past, handler, res,
                                exit_status, exit_reason, kv_used, tokens,
                                n_batch, i, ret, calls, line, out, flushed,
                                report, trace, gen, id, err, prev,
                                turn_past, late>>]_vars
    /\ [][handler => exit_reason' # "sigint"]_vars
    /\ [](exit_reason = "sigint" => (~handler /\ g_got_sigint = 0))

\* the main control flow was interrupted in the middle of eval_tokens
C11_Witness ==
    /\ g_got_sigint = 1
    /\ pc = "eval"
    /\ ret = "poll"
    /\ i > 0
    /\ i < Len(tokens)
    /\ exit_reason = "running"

\* what print_ephemeral and clear_ephemeral write: progress, no diagnostic
Progress ==
    {"initializing backend...", "initializing model...",
     "initializing context...", "loading prompt...", "clear"}

Fatal == exit_reason \in {"model_load", "context_create", "overflow"}

\* C12: when the process has ended on a model load failure, a context
\* creation failure or a context overflow, a diagnostic message is on the
\* error stream, and the process takes no further step.
C12_FatalDiagnosed ==
    /\ [](Fatal => (pc = "exited" /\ \E k \in 1..Len(err) : err[k] \notin Progress))
    /\ [][Fatal => vars' = vars]_vars

\* the evaluator has returned from its last call
Returned ==
    /\ ret # "none"
    /\ \/ pc = "eval" /\ i >= Len(tokens)
       \/ pc \notin {"eval", "exited"}

\* C13: the decode calls of one eval_tokens take consecutive chunks of the
\* argument in order, each of 1..n_batch tokens and all but the last of
\* exactly n_batch, at consecutive positions starting from n_past at entry;
\* when the evaluator has returned, every chunk was accepted, the chunks
\* cover the argument and n_past has grown by its length (no call and no
\* growth for an empty argument).
C13_Chunks ==
    /\ \A j \in 1..Len(calls) :
           /\ n_batch >= 1
           /\ calls[j].off = (j - 1) * n_batch
           /\ calls[j].n >= 1
           /\ calls[j].n <= n_batch
           /\ calls[j].off + calls[j].n <= Len(tokens)
           /\ calls[j].off + calls[j].n < Len(tokens) => calls[j].n = n_batch
           /\ calls[j].pos = calls[1].pos + calls[j].off
           /\ j < Len(calls) => calls[j].ok
    /\ Returned =>
           /\ \A j \in 1..Len(calls) : calls[j].ok
           /\ AcceptedLen(calls) = Len(tokens)
           /\ n_past = EntryPast + Len(tokens)
           /\ Len(tokens) = 0 <=> calls = <<>>
           /\ calls # <<>> =>
                  calls[Len(calls)].off + calls[Len(calls)].n = Len(tokens)

\* five tokens went to the engine as chunks of 2, 2 and 1
C13_Witness ==
    /\ Returned
    /\ Len(tokens) = 5
    /\ Len(calls) = 3
    /\ calls[3].n = 1
    /\ calls[3].pos = calls[1].pos + 4
    /\ calls[1].pos > 0

\* C14: sampling the end-of-generation token ends the turn in DONE; the
\* token is accepted into the sampling history but it is neither written to
\* stdout nor evaluated, so n_past and the engine's context stay what they
\* were after the last evaluated token, up to the next read.
C14_EndToken ==
    /\ [][(pc = "sample" /\ pc' # pc /\ llama_token_is_eog(id'))
              => /\ pc' = "end_turn" /\ gen' = "DONE"
                 /\ prev' = id'
                 /\ n_past' = n_past /\ kv_used' = kv_used
                 /\ out' = out /\ flushed' = flushed
                 /\ tokens' = tokens /\ calls' = calls]_vars
    /\ [][(gen = "DONE" /\ pc' # pc)
              => /\ pc' = "read"
                 /\ prev' = prev
                 /\ n_past' = n_past /\ kv_used' = kv_used
                 /\ Streamed(out') = Streamed(out)
                 /\ tokens' = tokens /\ calls' = calls]_vars
    /\ [](gen = "DONE"
            => /\ pc = "end_turn"
               /\ llama_token_is_eog(id) /\ prev = id
               /\ n_past = EntryPast + AcceptedLen(calls)
               /\ n_past = turn_past + Len(out)
               /\ \A k \in 1..Len(out) : out[k] = llama_token_to_piece(TOK))
    /\ [](\A k \in 1..Len(tokens) : ~llama_token_is_eog(tokens[k]))

\* the turn ended on the end token after two streamed tokens
C14_Witness ==
    /\ gen = "DONE"
    /\ prev = EOG
    /\ Len(out) = 2
    /\ n_past = turn_past + 2

LoopSteps == <<"sample", "accept", "write", "flush", "evaluate">>

\* eval_tokens runs (or has died) on behalf of eval_id
EvaluatingId ==
    /\ pc \in {"eval", "exited"}
    /\ ret = "poll"
    /\ gen = "EMITTING"

\* C15: between two polls a sampled token that is not the end token is
\* accepted, written, flushed and evaluated with batch size 1, in this
\* order and once each; its piece is flushed before llama_decode is called,
\* and an accepted evaluation advances n_past by 1.
C15_StepOrder ==
    /\ pc = "sample" => trace = <<>>
    /\ pc = "print"
          => /\ trace = SubSeq(LoopSteps, 1, 2)
             /\ ~llama_token_is_eog(id) /\ prev = id
    /\ pc = "flush"
          => /\ trace = SubSeq(LoopSteps, 1, 3)
             /\ out[Len(out)] = llama_token_to_piece(id)
             /\ flushed = Len(out) - 1
    /\ pc = "eval_id"
          => /\ trace = SubSeq(LoopSteps, 1, 4)
             /\ flushed = Len(out)
    /\ EvaluatingId
          => /\ trace = LoopSteps
             /\ tokens = <<id>> /\ n_batch = 1
             /\ out[Len(out)] = llama_token_to_piece(id)
             /\ flushed = Len(out)
             /\ Len(calls) <= 1
             /\ calls # <<>> => calls[1].pos = turn_past + Len(out) - 1
    /\ (pc = "poll" /\ trace # <<>>)
          => /\ trace = LoopSteps
             /\ flushed = Len(out)
             /\ Len(calls) = 1 /\ calls[1].ok /\ calls[1].n = 1
             /\ n_past = calls[1].pos + 1

\* the second token of a turn went through all steps of the loop body
C15_Witness ==
    /\ pc = "poll"
    /\ trace = LoopSteps
    /\ Len(out) = 2
    /\ flushed = 2
    /\ n_past = calls[1].pos + 1

\* C16: only the poll acts on the interrupt flag. With the flag set, the
\* steps of a running iteration go on as without it (the token is sampled,
\* written, flushed and evaluated), the flag stays set until the end of the
\* turn, and the next poll stops the loop: at most one token is sampled
\* in a turn after the flag was set.
C16_SinglePoll ==
    /\ [](late <= 1 /\ (late = 1 => g_got_sigint # 0))
    /\ [][(g_got_sigint # 0 /\ pc' # pc)
              => /\ pc = "poll" => (pc' = "end_turn" /\ gen' = "CANCELLED")
                 /\ pc = "sample"
                       => \/ pc' = "print" /\ gen' = "EMITTING"
                          \/ pc' = "end_turn" /\ gen' = "DONE"
                 /\ pc = "print"
                       => (pc' = "flush" /\ Len(out') = Len(out) + 1)
                 /\ pc = "flush" => (pc' = "eval_id" /\ flushed' = Len(out))
                 /\ pc = "eval_id" => (pc' = "eval" /\ tokens' = <<id>>)
                 /\ (pc = "eval" /\ ret = "poll")
                       => \/ pc' = "poll" /\ n_past = EntryPast + Len(tokens)
                          \/ pc' = "exited" /\ exit_reason' = "overflow"]_vars
    /\ [][(g_got_sigint # 0 /\ g_got_sigint' = 0) => pc = "end_turn"]_vars

\* the interrupt came after the second poll of a turn: the second token
\* was still streamed and evaluated, then the loop stopped
C16_Witness ==
    /\ gen = "CANCELLED"
    /\ late = 1
    /\ Len(out) = 2
    /\ n_past = turn_past + 2

\* C17: when the evaluation of a user turn returns and the generation loop
\* is entered, the loop is in SAMPLING and the interrupt flag is clear.
C17_StartsClear ==
    [][(pc = "eval" /\ ret = "poll" /\ gen = "IDLE" /\ pc' = "poll")
          => (gen' = "SAMPLING" /\ g_got_sigint' = 0)]_vars

\* C18: every generation ends, in DONE as in CANCELLED, by clearing the
\* interrupt flag before the next read; a cancelled generation has the flag
\* set until then, so the interrupt that cancelled it (or that arrived after
\* the last poll of a turn ending on the end token) is gone afterwards.
C18_FlagCleared ==
    /\ [](pc = "end_turn" => gen \in {"DONE", "CANCELLED"})
    /\ [](gen = "CANCELLED" => g_got_sigint # 0)
    /\ [][(pc = "end_turn" /\ pc' # pc)
              => (pc' = "read" /\ gen' = "IDLE" /\ g_got_sigint' = 0)]_vars

\* the interrupt arrived after the poll of a turn that ended on the end token
C18_Witness ==
    /\ pc = "end_turn"
    /\ gen = "DONE"
    /\ g_got_sigint = 1
    /\ late = 1

\* tokens streamed in the running turn that n_past does not count
Uncounted == Len(Streamed(out)) - (n_past - turn_past)

\* C19: at every poll (and at the end of the turn) the tokens streamed in
\* the turn are as many as n_past has grown since the user turn was
\* evaluated; inside an iteration the streamed token is one ahead until its
\* evaluation is accepted, and the process ends one ahead exactly when it
\* dies of the context overflow of a generated token.
C19_StreamedCounted ==
    /\ pc \in {"poll", "sample", "print", "end_turn"} => Uncounted = 0
    /\ gen # "IDLE" => Uncounted \in {0, 1}
    /\ (gen # "IDLE" /\ Uncounted = 1)
          => /\ pc \in {"flush", "eval_id", "eval", "exited"}
             /\ pc = "exited" => (Overflowed /\ EvaluatingId)
    /\ (Overflowed /\ gen # "IDLE") => (Uncounted = 1 /\ n_past = n_ctx)

\* the third poll of a turn: two tokens streamed, two counted
C19_Witness ==
    /\ pc = "poll"
    /\ Len(Streamed(out)) = 2
    /\ n_past - turn_past = 2
    /\ turn_past > 0
    /\ g_got_sigint = 0

\* C20: a line the dispatcher accepts splits, after the slash, into at
\* least one argument; the first one is not empty and begins with the
\* letter after the slash, and it is what an unrecognized command echoes.
C20_ArgsInBounds ==
    /\ (pc = "handle_command" /\ IsCommand(line))
          => LET args == SplitArgs(Tail(line)) IN
             /\ Len(args) >= 1
             /\ Len(args[1]) >= 1
             /\ args[1][1] = line[2]
             /\ \A k \in 1..Len(args[1]) : ~isspace(args[1][k])
    /\ report.kind = "unrecognized"
          => (report.name # <<>> /\ report.name # <<"<out of bounds>">>)

\* "/context foo" is about to be dispatched: two arguments
C20_Witness ==
    /\ pc = "handle_command"
    /\ IsCommand(line)
    /\ Len(SplitArgs(Tail(line))) = 2
    /\ SplitArgs(Tail(line))[1] = CONTEXT

====
